---- MODULE Spec2Model ----
(***************************************************************************)
(* Model of the network-direction and profitability-optimisation engine    *)
(* of mgo.py: create_network (direct_network and the incident-arc pass)    *)
(* and run_model (NPV / coverage pruning loop, connect_houses, the         *)
(* stranded-arc pass and the summary report).                              *)
(*                                                                         *)
(* Arithmetic.  The code computes in binary floating point; the model      *)
(* computes the same expressions exactly.  Inputs are drawn so that every  *)
(* intermediate value is an integer: floor areas are multiples of 20 m2    *)
(* (0.15 people per m2), the monthly demand is a multiple of 120 kWh (peak *)
(* = demand / (4*30)), the points lie on the line 4x = 3y so that every    *)
(* arc length is an integer.  opex_ratio and discount_rate are rationals   *)
(* num/den, and every NPV is held multiplied by                            *)
(*      NpvScale = opex_den * (rate_den + rate_num)^(years-1),             *)
(* a positive factor, so comparisons between NPVs are those of the code.   *)
(***************************************************************************)
EXTENDS Integers, Sequences, FiniteSets, TLC

VARIABLES
    pc,              \* position of the program
    nodes,           \* node index -> node record            (mgo.py: nodes)
    network,         \* arc index  -> arc record             (mgo.py: network)
    segs,            \* segments returned by the spanning-tree routine (T_x, T_y)
    max_tot_length,  \* maximum total reach
    stack,           \* call stack of direct_network: frames [index, pos]
    cfg,             \* economic configuration handed to run_model
    target,          \* target_coverage as <<num, den>>, <<-1, 1>> when omitted
    best_npv,        \* best NPV found so far (scaled by NpvScale)
    rounds,          \* rounds of the NPV loop started so far
    results,         \* the report
    err              \* the exception raised, "" when none

vars == <<pc, nodes, network, segs, max_tot_length, stack, cfg, target,
          best_npv, rounds, results, err>>

----------------------------------------------------------------------------
(* Bounds *)

MaxNodes == 4

MaxRounds == 8

\* the largest graph of the runs followed to their end under fairness
MaxFairNodes == 3

----------------------------------------------------------------------------
(* Inputs *)

\* position of point i along the line 4x = 3y, in units of 5 m
PointK == <<0, 20, 30, 50, 10, 60, 70>>

PointX(i) == 3 * PointK[i + 1]

PointY(i) == 4 * PointK[i + 1]

\* floor area of building i in m2; the generator (index 0) has area 0
PointArea == <<0, 40, 20, 60, 20, 40, 20>>

MaxLengths == {1000, 120}

NoCfg == [demand |-> 0, tariff |-> 0, gen_cost |-> 0, cost_wire |-> 0,
          cost_connection |-> 0, opex_num |-> 0, opex_den |-> 1, years |-> 1,
          rate_num |-> 0, rate_den |-> 1]

\* extremely favourable economics: high tariff, low costs
CfgFavourable == [demand |-> 120, tariff |-> 10, gen_cost |-> 1, cost_wire |-> 1,
                  cost_connection |-> 10, opex_num |-> 0, opex_den |-> 1,
                  years |-> 3, rate_num |-> 1, rate_den |-> 4]

\* tariff 0 and a high connection cost
CfgNoIncome == [demand |-> 120, tariff |-> 0, gen_cost |-> 1, cost_wire |-> 1,
                cost_connection |-> 1000, opex_num |-> 1, opex_den |-> 2,
                years |-> 2, rate_num |-> 0, rate_den |-> 1]

\* tariff 0 and an extremely high connection cost
CfgNoIncomeHuge == [demand |-> 120, tariff |-> 0, gen_cost |-> 1, cost_wire |-> 1,
                    cost_connection |-> 10000000, opex_num |-> 0, opex_den |-> 1,
                    years |-> 2, rate_num |-> 0, rate_den |-> 1]

\* near buildings pay for themselves, far ones do not
CfgMixed == [demand |-> 120, tariff |-> 1, gen_cost |-> 100, cost_wire |-> 50,
             cost_connection |-> 100, opex_num |-> 0, opex_den |-> 1,
             years |-> 2, rate_num |-> 0, rate_den |-> 1]

CfgMixedOpex == [demand |-> 120, tariff |-> 1, gen_cost |-> 50, cost_wire |-> 20,
                 cost_connection |-> 500, opex_num |-> 1, opex_den |-> 2,
                 years |-> 3, rate_num |-> 1, rate_den |-> 1]

Configs == {CfgFavourable, CfgNoIncome, CfgNoIncomeHuge, CfgMixed, CfgMixedOpex}

TargetDen == 4

NpvMode == <<-1, 1>>

Targets == {NpvMode} \cup {<<k, TargetDen>> : k \in 1..TargetDen}

----------------------------------------------------------------------------
(* Helpers *)

NumNodes == Cardinality(DOMAIN nodes)

NumArcs == Cardinality(DOMAIN network)

\* math.sqrt on the perfect squares the inputs produce
Sqrt(q) == CHOOSE r \in 0..1000 : r * r = q

RECURSIVE Pow(_, _)
Pow(b, e) == IF e = 0 THEN 1 ELSE b * Pow(b, e - 1)

RECURSIVE SumOver(_, _)
SumOver(S, f) ==
    IF S = {} THEN 0
    ELSE LET x == CHOOSE y \in S : TRUE IN f[x] + SumOver(S \ {x}, f)

\* int(): truncation toward zero of a / b, b > 0
TruncDiv(a, b) == IF a >= 0 THEN a \div b ELSE -((-a) \div b)

\* the parent functions over 1..n-1 that make a tree rooted at node 0
RECURSIVE ReachesRoot(_, _, _)
ReachesRoot(par, i, fuel) ==
    IF i = 0 THEN TRUE
    ELSE IF fuel = 0 THEN FALSE
    ELSE ReachesRoot(par, par[i], fuel - 1)

TreeParents(n) ==
    {par \in [1..(n - 1) -> 0..(n - 1)] :
        \A i \in 1..(n - 1) : par[i] # i /\ ReachesRoot(par, i, n)}

----------------------------------------------------------------------------
(* Initial states *)

\* lines 163-166: nodes with defaults 0 for marg_dist, tot_dist, connected
NewNode(i) == [x |-> PointX(i), y |-> PointY(i), area |-> PointArea[i + 1],
               marg |-> 0, tot |-> 0, connected |-> 0, arcs |-> << >>]

\* The spanning-tree routine hands back one segment per tree edge, with its
\* endpoints in either order.  Segment k joins node k and another node.
Segments(n, par, flip) ==
    [k \in 1..(n - 1) |->
        IF flip[k]
        THEN [xs |-> PointX(par[k]), ys |-> PointY(par[k]), xe |-> PointX(k), ye |-> PointY(k)]
        ELSE [xs |-> PointX(k), ys |-> PointY(k), xe |-> PointX(par[k]), ye |-> PointY(par[k])]]

InitCommon ==
    /\ network = << >>
    /\ stack = << >>
    /\ cfg = NoCfg
    /\ target = NpvMode
    /\ best_npv = 0
    /\ rounds = 0
    /\ results = << >>
    /\ err = ""

\* a call of create_network on n points
InitCreate ==
    /\ pc = "create"
    /\ \E n \in 1..MaxNodes :
        /\ nodes = [i \in 0..(n - 1) |-> NewNode(i)]
        /\ IF n - 1 >= 2
           THEN \E par \in TreeParents(n) : \E flip \in [1..(n - 1) -> BOOLEAN] :
                    segs = Segments(n, par, flip)
           ELSE segs = << >>
    /\ max_tot_length \in MaxLengths
    /\ InitCommon

\* a graph of a single root node and an empty arc list, handed to run_model
InitDegenerate ==
    /\ pc = "ready"
    /\ nodes = [i \in 0..0 |-> NewNode(i)]
    /\ segs = << >>
    /\ max_tot_length \in MaxLengths
    /\ InitCommon

Init == InitCreate \/ InitDegenerate

\* the parent functions over 1..n-1 that leave some node cut off from node 0
BrokenParents(n) ==
    {par \in [1..(n - 1) -> 0..(n - 1)] :
        /\ \A i \in 1..(n - 1) : par[i] # i
        /\ \E i \in 1..(n - 1) : ~ReachesRoot(par, i, n)}

NoFlip(n) == [k \in 1..(n - 1) |-> FALSE]

\* the segment from point i to point j
Segment(i, j) == [xs |-> PointX(i), ys |-> PointY(i), xe |-> PointX(j), ye |-> PointY(j)]

\* the sequence q without its k-th element
Without(q, k) == SubSeq(q, 1, k - 1) \o SubSeq(q, k + 1, Len(q))

\* Segment lists that are not a spanning tree of the points: segments cut off
\* from the generator, a spanning tree with one segment too many, a spanning
\* tree with one segment missing.
MalformedSegments(n) ==
    {Segments(n, par, flip) : par \in BrokenParents(n), flip \in [1..(n - 1) -> BOOLEAN]}
    \cup {Append(Segments(n, par, NoFlip(n)), Segment(e[1], e[2])) :
            par \in TreeParents(n),
            e \in {p \in (0..(n - 1)) \X (0..(n - 1)) : p[1] # p[2]}}
    \cup {Without(Segments(n, par, NoFlip(n)), k) : par \in TreeParents(n), k \in 1..(n - 1)}

\* a call of create_network where the spanning-tree routine hands back such a list
InitMalformed ==
    /\ pc = "create"
    /\ \E n \in 3..MaxNodes :
        /\ nodes = [i \in 0..(n - 1) |-> NewNode(i)]
        /\ segs \in MalformedSegments(n)
    /\ max_tot_length \in MaxLengths
    /\ InitCommon

----------------------------------------------------------------------------
(* create_network *)

\* lines 169-177: one arc per segment, undirected, enabled, with its length
NewArc(s) == [xs |-> s.xs, ys |-> s.ys, xe |-> s.xe, ye |-> s.ye,
              s |-> -99, e |-> -99, directed |-> 0,
              length |-> Sqrt((s.xe - s.xs) * (s.xe - s.xs) + (s.ye - s.ys) * (s.ye - s.ys)),
              enabled |-> 1]

\* lines 149-178 and the call on line 231.  With fewer than 3 points the
\* spanning-tree routine is skipped and T_x is unbound on line 171.
CreateNetwork ==
    /\ pc = "create"
    /\ IF NumNodes - 1 >= 2
       THEN /\ network' = [a \in 0..(Len(segs) - 1) |-> NewArc(segs[a + 1])]
            /\ stack' = <<[index |-> 0, pos |-> 0]>>
            /\ pc' = "direct"
            /\ err' = err
       ELSE /\ pc' = "error"
            /\ err' = "NameError"
            /\ UNCHANGED <<network, stack>>
    /\ UNCHANGED <<nodes, segs, max_tot_length, cfg, target, best_npv, rounds, results>>

----------------------------------------------------------------------------
(* direct_network, lines 185-227, as an explicit call stack.  A frame is a  *)
(* call direct_network(nodes, network, index) standing at position pos of   *)
(* its loop over the arcs.                                                  *)

Top == stack[Len(stack)]

Pop == SubSeq(stack, 1, Len(stack) - 1)

\* line 188
MatchesStart(arc, index) == arc.xs = nodes[index].x /\ arc.ys = nodes[index].y

\* line 194
MatchesEnd(arc, index) ==
    /\ ~MatchesStart(arc, index)
    /\ arc.xe = nodes[index].x /\ arc.ye = nodes[index].y

\* lines 201-206: flip it around because it's pointing the wrong way
FlipArc(arc) == [arc EXCEPT !.xs = arc.xe, !.ys = arc.ye, !.xe = arc.xs, !.ye = arc.ys]

\* the total distance taken to be the arc length alone
TotalDistanceOfArcOnly(parent_tot, length) == length

\* line 217
TotalDistance(parent_tot, length) == parent_tot + length

\* the comparison with the maximum reach turned around
ExceedsReachReversed(tot) == tot < max_tot_length

\* line 221
ExceedsReach(tot) == tot > max_tot_length

\* lines 213-214: the nodes standing at the arc's end point
NodesAt(x, y) == {i \in DOMAIN nodes : nodes[i].x = x /\ nodes[i].y = y}

FirstNodeAt(x, y) == CHOOSE i \in NodesAt(x, y) : \A j \in NodesAt(x, y) : i <= j

\* line 227: the loop over the arcs is exhausted, the call returns
DirectReturn ==
    /\ pc = "direct"
    /\ Top.pos >= NumArcs
    /\ stack' = Pop
    /\ pc' = IF Len(stack) = 1 THEN "incident" ELSE "direct"
    /\ UNCHANGED <<nodes, network, segs, max_tot_length, cfg, target, best_npv,
                   rounds, results, err>>

\* lines 186-198, 208: the arc does not touch this node, or has been done already
DirectSkip ==
    /\ pc = "direct"
    /\ Top.pos < NumArcs
    /\ LET arc == network[Top.pos] IN
         \/ ~MatchesStart(arc, Top.index) /\ ~MatchesEnd(arc, Top.index)
         \/ arc.directed = 1
    /\ stack' = [stack EXCEPT ![Len(stack)].pos = @ + 1]
    /\ UNCHANGED <<pc, nodes, network, segs, max_tot_length, cfg, target, best_npv,
                   rounds, results, err>>

\* lines 188-225: the arc is claimed, pointed away from this node, and the
\* node at its far end is given its distances and investigated in turn
DirectClaim ==
    /\ pc = "direct"
    /\ Top.pos < NumArcs
    /\ LET index == Top.index
           pos == Top.pos
           arc == network[pos]
           arc1 == IF MatchesEnd(arc, index) THEN FlipArc(arc) ELSE arc
           arc2 == [arc1 EXCEPT !.s = index, !.directed = 1]
       IN
         /\ MatchesStart(arc, index) \/ MatchesEnd(arc, index)
         /\ arc.directed # 1
         /\ IF NodesAt(arc2.xe, arc2.ye) # {}
            THEN LET node == FirstNodeAt(arc2.xe, arc2.ye)
                     tot == TotalDistance(nodes[index].tot, arc2.length)
                 IN
                   /\ nodes' = [nodes EXCEPT ![node].marg = arc2.length, ![node].tot = tot]
                   /\ network' = [network EXCEPT ![pos] =
                                     [arc2 EXCEPT !.e = node,
                                                  !.enabled = IF ExceedsReach(tot) THEN 0 ELSE @]]
                   /\ stack' = Append([stack EXCEPT ![Len(stack)].pos = @ + 1],
                                      [index |-> node, pos |-> 0])
            ELSE /\ network' = [network EXCEPT ![pos] = arc2]
                 /\ stack' = [stack EXCEPT ![Len(stack)].pos = @ + 1]
                 /\ nodes' = nodes
    /\ UNCHANGED <<pc, segs, max_tot_length, cfg, target, best_npv, rounds, results, err>>

\* a Python list index: -len..len-1, anything else raises IndexError
ValidIndex(i) == -NumNodes <= i /\ i <= NumNodes - 1

\* the element a valid index stands for: a negative index counts from the end
ListIndex(i) == IF i < 0 THEN i + NumNodes ELSE i

\* the first arc whose start or end index is no index of nodes, NumArcs when none
FirstBadArc ==
    LET bad == {a \in DOMAIN network : ~ValidIndex(network[a].s) \/ ~ValidIndex(network[a].e)}
    IN IF bad = {} THEN NumArcs ELSE CHOOSE a \in bad : \A b \in bad : a <= b

RECURSIVE AppendArcs(_, _, _)
\* lines 234-236, arcs a..last-1: nodes[arc[5]].append(arc[0]), nodes[arc[6]].append(arc[0])
AppendArcs(nd, a, last) ==
    IF a >= last THEN nd
    ELSE LET nd1 == [nd EXCEPT ![ListIndex(network[a].s)].arcs = Append(@, a)]
             nd2 == [nd1 EXCEPT ![ListIndex(network[a].e)].arcs = Append(@, a)]
         IN AppendArcs(nd2, a + 1, last)

\* lines 233-238: for every node, add references to every arc that connects to it
IncidentPass ==
    /\ pc = "incident"
    /\ nodes' = AppendArcs(nodes, 0, FirstBadArc)
    /\ IF FirstBadArc = NumArcs
       THEN pc' = "ready" /\ err' = err
       ELSE pc' = "error" /\ err' = "IndexError"
    /\ UNCHANGED <<network, segs, max_tot_length, stack, cfg, target, best_npv,
                   rounds, results>>

----------------------------------------------------------------------------
(* run_model: the economic evaluator, lines 288-309 and 326-335 *)

\* line 288: num_people_per_m2 = 0.15
People(area) == (area * 3) \div 20

\* lines 289-290: sum of areas * num_people_per_m2 * demand / (4*30)
GenSizeKw(S) == (SumOver(S, [i \in S |-> People(nodes[i].area)]) * cfg.demand) \div 120

\* line 291
cost_gen == GenSizeKw(DOMAIN nodes) * cfg.gen_cost

\* line 301: cost_wire * marginal distance + cost_connection
NodeCost(i) == cfg.cost_wire * nodes[i].marg + cfg.cost_connection

\* line 302: area * num_people_per_m2 * demand * tariff
NodeIncome(i) == People(nodes[i].area) * cfg.demand * cfg.tariff

\* line 306: the arcs calculate_profit follows out of node index
Follows(arc_index, index, disabled_arc_index) ==
    /\ network[arc_index].enabled = 1
    /\ arc_index # disabled_arc_index
    /\ network[arc_index].s = index

RECURSIVE CalculateProfit(_, _, _, _)
RECURSIVE ProfitArcs(_, _, _, _, _)
\* lines 294-309
CalculateProfit(index, disabled_arc_index, cost, income_per_month) ==
    ProfitArcs(index, disabled_arc_index, 1,
               cost + NodeCost(index), income_per_month + NodeIncome(index))

\* lines 304-307: the loop over connected_arcs, from position k on
ProfitArcs(index, disabled_arc_index, k, cost, income_per_month) ==
    IF k > Len(nodes[index].arcs) THEN [cost |-> cost, income |-> income_per_month]
    ELSE LET a == nodes[index].arcs[k] IN
         IF Follows(a, index, disabled_arc_index)
         THEN LET r == CalculateProfit(network[a].e, disabled_arc_index, cost, income_per_month)
              IN ProfitArcs(index, disabled_arc_index, k + 1, r.cost, r.income)
         ELSE ProfitArcs(index, disabled_arc_index, k + 1, cost, income_per_month)

RECURSIVE ProfitDeeperThan(_, _, _)
\* lines 304-307: calculate_profit, called on node index, nests more than
\* depth calls below itself
ProfitDeeperThan(index, disabled_arc_index, depth) ==
    IF depth = 0 THEN TRUE
    ELSE \E k \in 1..Len(nodes[index].arcs) :
            /\ Follows(nodes[index].arcs[k], index, disabled_arc_index)
            /\ ProfitDeeperThan(network[nodes[index].arcs[k]].e, disabled_arc_index, depth - 1)

\* A chain of calls longer than the number of nodes comes back to a node it
\* has been at and never ends: Python raises RecursionError.
ProfitOverflows(disabled_arc_index) == ProfitDeeperThan(0, disabled_arc_index, NumNodes)

\* every NPV of the model is the code's NPV times this factor
NpvScaleOf(c) == c.opex_den * Pow(c.rate_den + c.rate_num, c.years - 1)

NpvScale == NpvScaleOf(cfg)

\* NpvScale / opex_den * sum over t = 1..years-1 of 1 / (1 + rate)^t
Annuity ==
    LET T == 1..(cfg.years - 1) IN
    SumOver(T, [t \in T |-> Pow(cfg.rate_den, t) *
                            Pow(cfg.rate_den + cfg.rate_num, cfg.years - 1 - t)])

\* lines 329-335: opex = opex_ratio * capex, flows = income - opex, flows[0] = -capex,
\* np.npv(discount_rate, flows) = sum of flows[t] / (1 + rate)^t
Npv(capex, income) ==
    (income * cfg.opex_den - capex * cfg.opex_num) * Annuity - capex * NpvScale

\* lines 326-335: the NPV with the arc treated as if disabled
NpvWithout(disabled_arc_index) ==
    LET r == CalculateProfit(0, disabled_arc_index, 0, 0)
    IN Npv(cost_gen + r.cost, r.income * 12)

\* lines 318 and 358: best_npv = -9999999
BestNpvStartOf(c) == -9999999 * NpvScaleOf(c)

BestNpvStart == BestNpvStartOf(cfg)

\* a tie taken for an improvement
BetterOrEqual(npv, best) == npv >= best

\* line 340: npv > best_npv
Better(npv, best) == npv > best

RECURSIVE NpvScan(_, _, _, _)
\* lines 322-343: the scan of one round from arc a on
NpvScan(a, best, index, found) ==
    IF a >= NumArcs THEN [best |-> best, index |-> index, found |-> found]
    ELSE LET npv == NpvWithout(a) IN
         IF Better(npv, best) THEN NpvScan(a + 1, npv, a, TRUE)
         ELSE NpvScan(a + 1, best, index, found)

RECURSIVE CoverageScan(_, _, _, _)
\* lines 360-381: the scan of one round from arc a on; only enabled arcs are candidates
CoverageScan(a, best, index, found) ==
    IF a >= NumArcs THEN [best |-> best, index |-> index, found |-> found]
    ELSE LET npv == NpvWithout(a) IN
         IF Better(npv, best) /\ network[a].enabled = 1 THEN CoverageScan(a + 1, npv, a, TRUE)
         ELSE CoverageScan(a + 1, best, index, found)

EnabledArcs(nw) == {a \in DOMAIN nw : nw[a].enabled = 1}

\* line 388: actual_coverage <= target_coverage, with actual_coverage = enabled / total_arcs
CoverageReached(enabled, total_arcs) == enabled * target[2] <= target[1] * total_arcs

\* the round counter, followed up to MaxRounds
NextRound == IF rounds < MaxRounds THEN rounds + 1 ELSE rounds

\* lines 241-317: a call of run_model on the graph create_network returned
RunModel ==
    /\ pc = "ready"
    /\ \E c \in Configs : \E t \in Targets :
        /\ cfg' = c
        /\ target' = t
        /\ pc' = IF t = NpvMode THEN "npv" ELSE "coverage"
        /\ best_npv' = BestNpvStartOf(c)
    /\ UNCHANGED <<nodes, network, segs, max_tot_length, stack, rounds, results, err>>

\* lines 320-351: one round of the NPV loop
NpvRound ==
    /\ pc = "npv"
    /\ IF \E a \in DOMAIN network : ProfitOverflows(a)
       THEN /\ pc' = "error"
            /\ err' = "RecursionError"
            /\ UNCHANGED <<network, best_npv>>
       ELSE LET r == NpvScan(0, best_npv, -1, FALSE) IN
              /\ best_npv' = r.best
              /\ err' = err
              /\ IF r.found
                 THEN /\ network' = [network EXCEPT ![r.index].enabled = 0]
                      /\ pc' = "npv"
                 ELSE /\ network' = network
                      /\ pc' = "connect"
    /\ rounds' = NextRound
    /\ UNCHANGED <<nodes, segs, max_tot_length, stack, cfg, target, results>>

\* lines 357-389: one round of the coverage loop
CoverageRound ==
    /\ pc = "coverage"
    /\ IF \E a \in DOMAIN network : ProfitOverflows(a)
       THEN /\ pc' = "error"
            /\ err' = "RecursionError"
            /\ UNCHANGED <<network, best_npv>>
       ELSE LET r == CoverageScan(0, BestNpvStart, -1, FALSE)
                nw == IF r.found THEN [network EXCEPT ![r.index].enabled = 0] ELSE network
            IN
              /\ best_npv' = r.best
              /\ network' = nw
              /\ IF NumArcs = 0
                 THEN pc' = "error" /\ err' = "ZeroDivisionError"
                 ELSE /\ err' = err
                      /\ pc' = IF CoverageReached(Cardinality(EnabledArcs(nw)), NumArcs)
                               THEN "connect" ELSE "coverage"
    /\ UNCHANGED <<nodes, segs, max_tot_length, stack, cfg, target, rounds, results>>

----------------------------------------------------------------------------
(* run_model: the connectivity resolver and the report, lines 391-454 *)

\* the enabled flag left unread
ServesWhetherEnabledOrNot(arc_index, index) ==
    network[arc_index].s = index

\* line 404: the arcs connect_houses follows out of node index
Serves(arc_index, index) ==
    /\ network[arc_index].enabled = 1
    /\ network[arc_index].s = index

RECURSIVE ConnectHousesFrom(_, _)
RECURSIVE ConnectArcs(_, _, _)
\* lines 395-407: this node is connected, and so is every node an enabled arc leads to
ConnectHousesFrom(nd, index) ==
    ConnectArcs([nd EXCEPT ![index].connected = 1], index, 1)

\* lines 402-405: the loop over connected_arcs, from position k on
ConnectArcs(nd, index, k) ==
    IF k > Len(nd[index].arcs) THEN nd
    ELSE LET a == nd[index].arcs[k] IN
         IF Serves(a, index)
         THEN ConnectArcs(ConnectHousesFrom(nd, network[a].e), index, k + 1)
         ELSE ConnectArcs(nd, index, k + 1)

RECURSIVE ConnectDeeperThan(_, _)
\* lines 402-405: connect_houses, called on node index, nests more than depth
\* calls below itself
ConnectDeeperThan(index, depth) ==
    IF depth = 0 THEN TRUE
    ELSE \E k \in 1..Len(nodes[index].arcs) :
            /\ Serves(nodes[index].arcs[k], index)
            /\ ConnectDeeperThan(network[nodes[index].arcs[k]].e, depth - 1)

\* line 409; a chain of calls that comes back to a node never ends: RecursionError
ConnectHouses ==
    /\ pc = "connect"
    /\ IF ConnectDeeperThan(0, NumNodes)
       THEN /\ pc' = "error"
            /\ err' = "RecursionError"
            /\ nodes' = nodes
       ELSE /\ nodes' = ConnectHousesFrom(nodes, 0)
            /\ pc' = "stranded"
            /\ err' = err
    /\ UNCHANGED <<network, segs, max_tot_length, stack, cfg, target, best_npv,
                   rounds, results>>

\* lines 412-416: the arcs touching a node that is not connected
StrandedArcs ==
    {a \in DOMAIN network :
        \E i \in DOMAIN nodes :
            /\ nodes[i].connected = 0
            /\ \E k \in 1..Len(nodes[i].arcs) : nodes[i].arcs[k] = a}

\* lines 411-416
StrandedPass ==
    /\ pc = "stranded"
    /\ network' = [a \in DOMAIN network |->
                      IF a \in StrandedArcs THEN [network[a] EXCEPT !.enabled = 0]
                      ELSE network[a]]
    /\ pc' = "report"
    /\ UNCHANGED <<nodes, segs, max_tot_length, stack, cfg, target, best_npv,
                   rounds, results, err>>

ConnectedNodes == {i \in DOMAIN nodes : nodes[i].connected = 1}

\* lines 422-454
Report ==
    /\ pc = "report"
    /\ LET count_nodes == Cardinality(ConnectedNodes) - 1
           income_per_month == SumOver(ConnectedNodes, [i \in ConnectedNodes |-> NodeIncome(i)])
           gen_size_kw == GenSizeKw(ConnectedNodes)
           E == EnabledArcs(network)
           total_length == SumOver(E, [a \in E |-> network[a].length])
           capex == gen_size_kw * cfg.gen_cost + cfg.cost_connection * count_nodes
                    + cfg.cost_wire * total_length
           income == income_per_month * 12
       IN results' = [connected |-> count_nodes,
                      gen_size |-> gen_size_kw,
                      length |-> total_length,
                      capex |-> capex,
                      opex |-> TruncDiv(cfg.opex_num * capex, cfg.opex_den),
                      income |-> income,
                      npv |-> TruncDiv(Npv(capex, income), NpvScale)]
    /\ pc' = "done"
    /\ UNCHANGED <<nodes, network, segs, max_tot_length, stack, cfg, target, best_npv,
                   rounds, err>>

----------------------------------------------------------------------------

Next ==
    \/ CreateNetwork
    \/ DirectReturn
    \/ DirectSkip
    \/ DirectClaim
    \/ IncidentPass
    \/ RunModel
    \/ NpvRound
    \/ CoverageRound
    \/ ConnectHouses
    \/ StrandedPass
    \/ Report

Spec == Init /\ [][Next]_vars

\* The program is sequential and runs to completion: every step that can be
\* taken is taken.  The runs followed to their end start from the smaller graphs.
FairInit == Init /\ NumNodes <= MaxFairNodes

FairSpec == FairInit /\ [][Next]_vars /\ WF_vars(Next)

\* the runs of the program when the spanning-tree routine may also hand back
\* a segment list that is not a spanning tree
MalformedSpec == (Init \/ InitMalformed) /\ [][Next]_vars

TypeOK ==
    /\ pc \in {"create", "direct", "incident", "ready", "npv", "coverage",
               "connect", "stranded", "report", "done", "error"}
    /\ rounds \in 0..MaxRounds
    /\ err \in {"", "NameError", "IndexError", "ZeroDivisionError", "RecursionError"}
    /\ (pc = "error") = (err # "")

----------------------------------------------------------------------------
(* Notions the properties are stated in *)

RECURSIVE Grow(_)
\* the nodes reachable from the nodes of R through enabled arcs
Grow(R) ==
    LET step == R \cup {i \in DOMAIN nodes :
                          \E a \in EnabledArcs(network) :
                              \/ network[a].s \in R /\ network[a].e = i
                              \/ network[a].e \in R /\ network[a].s = i}
    IN IF step = R THEN R ELSE Grow(step)

\* the nodes reachable from node 0 through enabled arcs only
Reachable == Grow({0})

\* the arc sets that hang together from the root: each arc starts at the root
\* or at the end of another arc of the set
RootConnected(S) ==
    \A a \in S : network[a].s = 0 \/ \E b \in S : network[b].e = network[a].s

\* NPV of building exactly the arcs of S, by the formulas of the evaluator
SubsetNpv(S) ==
    LET served == {0} \cup {network[a].e : a \in S}
        cost == SumOver(served, [i \in served |-> NodeCost(i)])
        income_per_month == SumOver(served, [i \in served |-> NodeIncome(i)])
    IN Npv(cost_gen + cost, income_per_month * 12)

\* the graph of Scenarios A and B: generator and 2 buildings, arcs of 100 m
\* and 50 m, max reach 1000 m
ScenarioGraph ==
    /\ NumNodes = 3
    /\ NumArcs = 2
    /\ {network[a].length : a \in DOMAIN network} = {100, 50}
    /\ max_tot_length = 1000

----------------------------------------------------------------------------
(* C1 *)

\* C1: in NPV mode, when the optimizer and the resolver have finished, no
\* root-connected subset of the tree's arcs has a strictly higher NPV than
\* the subset left enabled.
C1_NpvMaximal ==
    (pc = "done" /\ target = NpvMode) =>
        \A S \in SUBSET (DOMAIN network) :
            RootConnected(S) => SubsetNpv(S) <= SubsetNpv(EnabledArcs(network))

----------------------------------------------------------------------------
(* C2 *)

\* C2: Scenario A: with extremely favourable economics run_model in NPV mode
\* disables nothing: both arcs are enabled at the end and the report shows
\* connected = 2 and length = 150.
C2_ScenarioA ==
    (pc = "done" /\ target = NpvMode /\ ScenarioGraph /\ cfg = CfgFavourable) =>
        /\ \A a \in DOMAIN network : network[a].enabled = 1
        /\ results.connected = 2
        /\ results.length = 150

----------------------------------------------------------------------------
(* C3 *)

\* C3: Scenario B: with tariff 0 and an extremely high connection cost,
\* however large, run_model in NPV mode ends with both arcs disabled and the
\* report shows connected = 0, length = 0 and capex = generator cost only.
C3_ScenarioB ==
    (/\ pc = "done" /\ target = NpvMode /\ ScenarioGraph
     /\ cfg.tariff = 0 /\ cfg.cost_connection >= 1000) =>
        /\ \A a \in DOMAIN network : network[a].enabled = 0
        /\ results.connected = 0
        /\ results.length = 0
        /\ results.capex = results.gen_size * cfg.gen_cost

----------------------------------------------------------------------------
(* C4 *)

\* C4: on a tree with at least one arc the coverage loop eventually stops,
\* and when it stops enabled arcs / original arcs <= target.
CoverageLooping == pc = "coverage" /\ NumArcs >= 1

CoverageStopped ==
    pc = "connect" /\ CoverageReached(Cardinality(EnabledArcs(network)), NumArcs)

C4_CoverageTerminates == CoverageLooping ~> CoverageStopped

----------------------------------------------------------------------------
(* C5 *)

\* C5: in coverage mode the fraction of arcs enabled in the network that
\* run_model returns is strictly greater than target - 1 / (number of arcs).
C5_NoOvershoot ==
    (pc = "done" /\ target # NpvMode /\ NumArcs >= 1) =>
        Cardinality(EnabledArcs(network)) * target[2] > target[1] * NumArcs - target[2]

----------------------------------------------------------------------------
(* C6 *)

ParentArcs(i) == {a \in DOMAIN network : network[a].e = i}

\* C6: after connect_houses and the stranded-arc pass, every enabled arc has
\* both end points reachable from node 0 through enabled arcs, the enabled
\* arcs form a tree hanging from the root (one enabled parent arc per
\* reachable node, none into the root), and a node's connected flag is 1
\* exactly when the node is reachable from node 0 through enabled arcs.
C6_ResolvedSubtree ==
    (pc \in {"report", "done"}) =>
        /\ \A a \in EnabledArcs(network) :
              network[a].s \in Reachable /\ network[a].e \in Reachable
        /\ \A i \in DOMAIN nodes : (nodes[i].connected = 1) <=> (i \in Reachable)
        /\ \A i \in Reachable \ {0} :
              Cardinality(ParentArcs(i) \cap EnabledArcs(network)) = 1
        /\ ParentArcs(0) \cap EnabledArcs(network) = {}

\* the resolver has run on a graph where the optimizer cut above an arc it
\* left enabled: a building is connected, and an arc that starts at a node
\* within reach but not connected has been disabled
C6_Witness ==
    /\ pc = "report"
    /\ \E i \in DOMAIN nodes : i # 0 /\ nodes[i].connected = 1
    /\ \E a \in DOMAIN network :
          /\ network[a].enabled = 0
          /\ nodes[network[a].s].connected = 0
          /\ nodes[network[a].e].tot <= max_tot_length

----------------------------------------------------------------------------
(* C7 *)

Directed == pc \in {"ready", "npv", "coverage", "connect", "stranded", "report", "done"}

\* C7: after direct_network and the incident-arc pass every arc is marked
\* directed, the root has marginal and cumulative distance 0, and every other
\* node is the directed end of exactly one arc, has that arc's length as its
\* marginal distance and its parent's cumulative distance plus its own
\* marginal distance as its cumulative distance.
C7_DirectedTree ==
    Directed =>
        /\ \A a \in DOMAIN network : network[a].directed = 1
        /\ nodes[0].marg = 0 /\ nodes[0].tot = 0
        /\ \A i \in DOMAIN nodes \ {0} :
              /\ Cardinality(ParentArcs(i)) = 1
              /\ \A a \in ParentArcs(i) :
                    /\ network[a].s \in DOMAIN nodes
                    /\ nodes[i].marg = network[a].length
                    /\ nodes[i].tot = nodes[network[a].s].tot + nodes[i].marg

\* the director has finished on a tree where it had to flip an arc and where a
\* building hangs below another building
C7_Witness ==
    /\ pc = "ready"
    /\ \E a \in DOMAIN network : network[a].xs # segs[a + 1].xs
    /\ \E i \in DOMAIN nodes : nodes[i].marg > 0 /\ nodes[i].tot > nodes[i].marg

----------------------------------------------------------------------------
(* C8 *)

\* C8 as stated: the NPV loop makes at most (total arc count) rounds.
C8_AtMostArcCountRounds ==
    (target = NpvMode /\ NumArcs >= 1) => rounds <= NumArcs

\* C8 as amended: the NPV loop stops after at most (total arc count) + 1
\* rounds: every round either leaves the loop or starts another one, and no
\* more than (total arc count) + 1 are started; each round disables at most
\* one arc and enables none, and the best NPV found so far never decreases.
C8_NpvLoopBounded ==
    [][(pc = "npv") =>
          /\ pc' \in {"npv", "connect"}
          /\ rounds' = rounds + 1
          /\ rounds' <= NumArcs + 1
          /\ EnabledArcs(network') \subseteq EnabledArcs(network)
          /\ Cardinality(EnabledArcs(network) \ EnabledArcs(network')) <= 1
          /\ best_npv' >= best_npv]_vars

\* the NPV loop has stopped after disabling every arc, one per round
C8_Witness ==
    /\ pc = "connect"
    /\ target = NpvMode
    /\ NumArcs >= 2
    /\ EnabledArcs(network) = {}
    /\ rounds = NumArcs + 1

----------------------------------------------------------------------------
(* C9 *)

\* the nodes whose cumulative distance exceeds the maximum total reach
OverReach == {i \in DOMAIN nodes : nodes[i].tot > max_tot_length}

RECURSIVE Visited(_, _)
\* the nodes a call calculate_profit(nodes, network, index, d, ..) adds up
Visited(index, d) ==
    {index} \cup
    UNION {Visited(network[nodes[index].arcs[k]].e, d) :
             k \in {j \in 1..Len(nodes[index].arcs) : Follows(nodes[index].arcs[j], index, d)}}

\* C9: a node beyond the maximum total reach has its parent arc disabled when
\* the director has finished; in every evaluator call of the optimizer
\* (whichever arc is treated as disabled) cost and income are the sums over
\* the visited nodes and the node is not among them; and the node is not
\* marked connected in the result.
C9_MaxReach ==
    (Directed \/ pc = "incident") =>
        \A i \in OverReach :
            /\ ParentArcs(i) # {}
            /\ \A a \in ParentArcs(i) : network[a].enabled = 0
            /\ (pc \in {"npv", "coverage"}) =>
                  \A d \in DOMAIN network :
                      LET V == Visited(0, d)
                          r == CalculateProfit(0, d, 0, 0)
                      IN /\ i \notin V
                         /\ r.cost = SumOver(V, [j \in V |-> NodeCost(j)])
                         /\ r.income = SumOver(V, [j \in V |-> NodeIncome(j)])
            /\ (pc \in {"stranded", "report", "done"}) => nodes[i].connected = 0

\* run_model has returned a graph with a building beyond the maximum reach
\* and a building that is connected
C9_Witness ==
    /\ pc = "done"
    /\ OverReach # {}
    /\ \E i \in DOMAIN nodes : i # 0 /\ nodes[i].connected = 1

----------------------------------------------------------------------------
(* C10 *)

\* C10: on a single root node with an empty arc list run_model raises
\* nothing, in NPV mode and in coverage mode, and reports zero connections
\* and zero length.
C10_DegenerateRuns ==
    (NumNodes = 1 /\ NumArcs = 0 /\ cfg \in Configs) =>
        /\ pc # "error"
        /\ (pc = "done") => (results.connected = 0 /\ results.length = 0)

----------------------------------------------------------------------------
(* C11 *)

\* the nodes standing at the two ends of segment k
SegmentEnds(k) ==
    NodesAt(segs[k].xs, segs[k].ys) \cup NodesAt(segs[k].xe, segs[k].ye)

RECURSIVE GrowAlongSegments(_)
\* the nodes joined to the nodes of R by segments
GrowAlongSegments(R) ==
    LET step == R \cup UNION {SegmentEnds(k) : k \in {j \in 1..Len(segs) : SegmentEnds(j) \cap R # {}}}
    IN IF step = R THEN R ELSE GrowAlongSegments(step)

\* the segments that no path of segments joins to the root
UnreachableSegments ==
    {k \in 1..Len(segs) : SegmentEnds(k) \cap GrowAlongSegments({0}) = {}}

\* the segments joined to the root are too many to be a tree: they close a cycle
CycleAtRoot ==
    Len(segs) - Cardinality(UnreachableSegments) > Cardinality(GrowAlongSegments({0})) - 1

\* the segment list has an arc not reachable from the root, or arcs forming a cycle
Malformed == UnreachableSegments # {} \/ CycleAtRoot

\* C11: when the arc list handed to the director has an arc not reachable
\* from the root, or arcs forming a cycle, direction ends in an error: it
\* never completes normally, with such an arc ignored, left undirected or
\* made a second parent arc of a node.
C11_MalformedFailsFast == Malformed => ~Directed

----------------------------------------------------------------------------
(* C12 *)

\* C12: the capex, opex, income and NPV of the report are those of the
\* optimizer's evaluation of the final state: calculate_profit from the root
\* with no arc treated as disabled, capex = generator cost + cost, opex =
\* opex_ratio * capex, income = 12 * monthly income, the generator sized for
\* the connected population in both.
C12_ReportAsEvaluated ==
    (pc = "done") =>
        LET r == CalculateProfit(0, -1, 0, 0)
            capex == GenSizeKw(ConnectedNodes) * cfg.gen_cost + r.cost
            income == r.income * 12
        IN /\ results.capex = capex
           /\ results.opex = TruncDiv(cfg.opex_num * capex, cfg.opex_den)
           /\ results.income = income
           /\ results.npv = TruncDiv(Npv(capex, income), NpvScale)

====
